---- MODULE Spec2Model ----
(***************************************************************************)
(* The step debugger of the formula editor: the DebugModal controller      *)
(* (refresh, stepForward, stepToView, stepBackward, toggleAutoPlay), the   *)
(* interpreter adapter (initializeInterpreter) and the history they keep.  *)
(*                                                                         *)
(* DebugModal is a React function component.  Every handler is a closure   *)
(* over the state of the render it was created in; a state setter takes    *)
(* effect at the next render, which happens after the handler returns.     *)
(* The buttons call the handlers of the latest render; the auto-play timer *)
(* keeps calling the stepForward of the render in which toggleAutoPlay     *)
(* started it.  The interpreter object and autoPlayIntervalRef are shared  *)
(* mutable objects, read and written in place.                             *)
(*                                                                         *)
(* A program text is a sequence of one-character tokens:                   *)
(*   " "  white space            "s"  a statement (one step)               *)
(*   "v"  view([["x","X"],["y","Y"]])                                      *)
(*   "w"  a view([["x","X"]]) call that never finishes                     *)
(*   "m"  view([["x"],[1,"One"],[x,"X"],5,["y","Y"]]), two steps long      *)
(*   "e"  view([["x","X","extra"]])     "a"  view([["x"]])                 *)
(*   "h"  view([["x","X"], ,["y","Y"]]) (an elision between the pairs)     *)
(*   "k"  a statement that never finishes (while (true) {})                *)
(*   "t"  a statement whose evaluation throws                              *)
(*   "!"  a token the parser rejects                                       *)
(***************************************************************************)
EXTENDS Integers, Sequences, FiniteSets, TLC

\* ------------------------------------------------------------------ bounds
\* Operations that step are offered while the history is shorter than this.
MaxHistory == 5

\* stepToView's iteration ceiling (100000 in the source), scaled down so that
\* a runaway program reaches it within the explored histories.
maxSteps == 3

\* The deepest call stack and the longest name list handed to the scope
\* resolver and the variable collector.
MaxStack == 3
MaxNames == 2

\* The program texts extractManual can hand to the debugger.
Programs ==
  { <<" ">>,
    <<"s", "!">>,
    <<"s">>,
    <<"v", "s", "v">>,
    <<"s", "k">>,
    <<"v", "k">>,
    <<"w">>,
    <<"s", "t">>,
    <<"e", "s", "m">>,
    <<" ", "a", "h", "v">> }

\* ------------------------------------------------------------- constants
Null == 0
Refs == {1, 2}

NoError == <<>>
NoCodeToDebug == <<"No code to debug">>
NotLoaded == <<"JS-Interpreter not loaded. Please refresh the page.">>
NoCodeAvailable == <<"No code available to execute">>
PastCeilingError == <<"Maximum steps reached while trying to step past view() breakpoint">>
SeekCeilingError == <<"Maximum steps reached while looking for next View">>
ExtractError == <<"extractManual error">>

VARIABLES
  code,                 \* useState<string>("")
  windowInterpreter,    \* whether window.Interpreter is loaded
  isOpen,               \* the isOpen prop
  interpreter,          \* useState<JSInterpreter | null>: Null or a reference
  heap,                 \* the interpreter objects, by reference
  history,              \* useState<DebugState[]>
  isRunning,
  isComplete,
  error,
  isSteppingToView,
  autoPlayIntervalRef,  \* the timer and the closure its callback runs in
  highlighted,          \* the range last handed to the editor
  pc,                   \* "idle", or the loop stepToView is in
  stepsCount,           \* stepToView's local
  stillAtSameView,      \* stepToView's local
  capturedLen,          \* history.length in the running stepToView's closure
  op,                   \* the handler that ran last
  callsInOp,            \* step() calls made by that handler
  pushes                \* updateStepModeVariables calls since execution arrived
                        \* at the current view call

controllerVars ==
  << code, windowInterpreter, isOpen, interpreter, heap, history, isRunning,
     isComplete, error, isSteppingToView, autoPlayIntervalRef, highlighted,
     pc, stepsCount, stillAtSameView, capturedLen, op, callsInOp,
     pushes >>

\* ------------------------------------------------------ the interpreter
\* String.prototype.trim
RECURSIVE TrimLeft(_)
TrimLeft(s) ==
  IF s # <<>> /\ Head(s) = " " THEN TrimLeft(Tail(s)) ELSE s

RECURSIVE TrimRight(_)
TrimRight(s) ==
  IF s # <<>> /\ s[Len(s)] = " " THEN TrimRight(SubSeq(s, 1, Len(s) - 1)) ELSE s

Trim(s) == TrimRight(TrimLeft(s))

\* The offsets (1-based) of the program's nodes, in source order.
RECURSIVE NodesFrom(_, _)
NodesFrom(text, i) ==
  IF i > Len(text) THEN <<>>
  ELSE IF text[i] = " " THEN NodesFrom(text, i + 1)
  ELSE <<i>> \o NodesFrom(text, i + 1)

Nodes(text) == NodesFrom(text, 1)

ParseFails(text) == \E i \in 1..Len(text) : text[i] = "!"

ParseErrorText == "Unexpected token"

NoObject == [text |-> <<>>, pc |-> 0, done |-> FALSE, phase |-> 0]

\* new Interpreter(code, initFunc): the Program node is the current node.
NewInterpreter(text) == [text |-> text, pc |-> 0, done |-> FALSE, phase |-> 0]

\* The kind of the node on top of the interpreter's state stack.
TopKind(o) == IF o.pc = 0 THEN "Program" ELSE o.text[Nodes(o.text)[o.pc]]

\* The node on top of the interpreter's state stack.
TopNode(o) ==
  IF o.pc = 0
    THEN [type |-> "Program", start |-> 0, end |-> Len(o.text)]
    ELSE [type |-> TopKind(o),
          start |-> Nodes(o.text)[o.pc] - 1,
          end |-> Nodes(o.text)[o.pc]]

\* interpreter.step(): one unit of evaluation.
step(o) ==
  IF o.done THEN [ret |-> "false", obj |-> o]
  ELSE IF TopKind(o) = "t" THEN [ret |-> "throw", obj |-> o]
  ELSE IF TopKind(o) \in {"k", "w"} THEN [ret |-> "true", obj |-> o]
  ELSE IF TopKind(o) = "m" /\ o.phase = 0
    THEN [ret |-> "true", obj |-> [o EXCEPT !.phase = 1]]
  ELSE IF o.pc < Len(Nodes(o.text))
    THEN [ret |-> "true", obj |-> [o EXCEPT !.pc = o.pc + 1, !.phase = 0]]
    ELSE [ret |-> "true", obj |-> [o EXCEPT !.pc = 0, !.done = TRUE, !.phase = 0]]

\* The tokens that are calls of view.
ViewTokens == {"v", "w", "m", "e", "a", "h"}

\* isAtView(interpreter): the top frame's node is a call of view.
isAtView(o) == ~o.done /\ o.pc > 0 /\ TopKind(o) \in ViewTokens

\* The syntax tree of a view call's first argument.  A literal's value is a
\* string or a number; an elided array element is null.
StringValue(text) == [t |-> "string", s |-> text, n |-> 0]
NumberValue(number) == [t |-> "number", s |-> "", n |-> number]
Literal(value) == [type |-> "Literal", value |-> value, elements |-> <<>>]
Identifier(name) == [type |-> "Identifier", value |-> StringValue(name), elements |-> <<>>]
ArrayExpression(elements) ==
  [type |-> "ArrayExpression", value |-> StringValue(""), elements |-> elements]
NullElement == [type |-> "null", value |-> StringValue(""), elements |-> <<>>]

StringPair(a, b) == ArrayExpression(<<Literal(StringValue(a)), Literal(StringValue(b))>>)

ViewArgument(kind) ==
  CASE kind = "v" -> ArrayExpression(<<StringPair("x", "X"), StringPair("y", "Y")>>)
    [] kind = "w" -> ArrayExpression(<<StringPair("x", "X")>>)
    [] kind = "m" ->
         ArrayExpression(<<
           ArrayExpression(<<Literal(StringValue("x"))>>),
           ArrayExpression(<<Literal(NumberValue(1)), Literal(StringValue("One"))>>),
           ArrayExpression(<<Identifier("x"), Literal(StringValue("X"))>>),
           Literal(NumberValue(5)),
           StringPair("y", "Y")>>)
    [] kind = "e" ->
         ArrayExpression(<<
           ArrayExpression(<<Literal(StringValue("x")), Literal(StringValue("X")),
                             Literal(StringValue("extra"))>>)>>)
    [] kind = "a" -> ArrayExpression(<<ArrayExpression(<<Literal(StringValue("x"))>>)>>)
    [] kind = "h" ->
         ArrayExpression(<<StringPair("x", "X"), NullElement, StringPair("y", "Y")>>)

\* ------------------------------------ scope resolver, variable collector
VARIABLES
  stack,          \* the stack snapshot handed to the function under test
  varNames,       \* the requested names
  convert,        \* whether interpreter.pseudoToNative exists
  call,           \* the function applied last, with its name argument
  findResult,     \* what findVariableInStack returned
  collectResult   \* what collectVariablesFromStack returned, and its lookups

scopeVars == << stack, varNames, convert, call, findResult, collectResult >>

Names == {"x", "y"}
Undefined == "undefined"
Absent == "absent"

\* The scopes a frame can carry: no scope object, one whose property access
\* throws, or an object binding some names (to undefined, or to a value in
\* the interpreter's representation).
Scopes ==
  { [kind |-> "none", vars |-> [n \in Names |-> Absent]],
    [kind |-> "throws", vars |-> [n \in Names |-> Absent]],
    [kind |-> "object", vars |-> [n \in Names |-> Absent]],
    [kind |-> "object", vars |-> [n \in Names |-> IF n = "x" THEN "p1" ELSE Absent]],
    [kind |-> "object", vars |-> [n \in Names |-> IF n = "x" THEN "p2" ELSE Absent]],
    [kind |-> "object", vars |-> [n \in Names |-> IF n = "x" THEN Undefined ELSE Absent]],
    [kind |-> "object", vars |-> [n \in Names |-> IF n = "x" THEN "p1" ELSE "p2"]],
    [kind |-> "object", vars |-> [n \in Names |-> IF n = "x" THEN Absent ELSE "p1"]] }

Frames == [scope : Scopes]

\* interpreter.pseudoToNative
pseudoToNative(value) ==
  CASE value = "p1" -> "n1"
    [] value = "p2" -> "n2"
    [] OTHER -> value

\* interpreter.getProperty(scope.object, name): undefined for a missing name.
getProperty(scope, name) ==
  IF name \notin DOMAIN scope.vars \/ scope.vars[name] = Absent
    THEN Undefined ELSE scope.vars[name]

\* getScopeName written with stackLength - index.
getScopeNameOffByOne(index, stackLength) ==
  IF index = 0 THEN <<"Global">> ELSE <<"Local-", stackLength - index>>

\* getScopeName(index, stackLength); index counts from 0 at the bottom.
getScopeName(index, stackLength) ==
  IF index = 0 THEN <<"Global">> ELSE <<"Local-", stackLength - 1 - index>>

\* convertToNativeValue that never calls pseudoToNative.
convertToNativeValueSkipped(hasPseudoToNative, value) == value

\* convertToNativeValue(interpreter, value)
convertToNativeValue(hasPseudoToNative, value) ==
  IF hasPseudoToNative THEN pseudoToNative(value) ELSE value

\* findVariableInFrame without the test of scope?.object and without the
\* try: a frame it cannot read ends the search with nothing found.
findVariableInFrameUnguarded(hasPseudoToNative, frame, varName, frameIndex, stackLength) ==
  LET scopeName == getScopeName(frameIndex, stackLength)
  IN IF frame.scope.kind \in {"none", "throws"}
       THEN [found |-> TRUE, value |-> Undefined, scopeName |-> <<"">>]
     ELSE IF getProperty(frame.scope, varName) # Undefined
       THEN [found |-> TRUE,
             value |-> IF hasPseudoToNative
                         THEN pseudoToNative(getProperty(frame.scope, varName))
                         ELSE getProperty(frame.scope, varName),
             scopeName |-> scopeName]
       ELSE [found |-> FALSE, value |-> Undefined, scopeName |-> scopeName]

\* findVariableInFrame(interpreter, state, varName, frameIndex, stackLength)
findVariableInFrame(hasPseudoToNative, frame, varName, frameIndex, stackLength) ==
  LET scopeName == getScopeName(frameIndex, stackLength)
      notFound == [found |-> FALSE, value |-> Undefined, scopeName |-> scopeName]
  IN IF frame.scope.kind = "none" THEN notFound
     ELSE IF frame.scope.kind = "throws" THEN notFound
     ELSE IF getProperty(frame.scope, varName) # Undefined
       THEN [found |-> TRUE,
             value |-> convertToNativeValue(hasPseudoToNative,
                                            getProperty(frame.scope, varName)),
             scopeName |-> scopeName]
       ELSE notFound

\* The loop of findVariableInStack from index i down to 0.
RECURSIVE findFrom(_, _, _, _)
findFrom(hasPseudoToNative, frames, varName, i) ==
  IF i < 0 THEN [found |-> FALSE, value |-> Undefined, scopeName |-> <<"">>]
  ELSE LET result == findVariableInFrame(hasPseudoToNative, frames[i + 1], varName,
                                         i, Len(frames))
       IN IF result.found THEN result
          ELSE findFrom(hasPseudoToNative, frames, varName, i - 1)

\* The loop of findVariableInStack run from index i up to the top.
RECURSIVE findFromBottom(_, _, _, _)
findFromBottom(hasPseudoToNative, frames, varName, i) ==
  IF i >= Len(frames) THEN [found |-> FALSE, value |-> Undefined, scopeName |-> <<"">>]
  ELSE LET result == findVariableInFrame(hasPseudoToNative, frames[i + 1], varName,
                                         i, Len(frames))
       IN IF result.found THEN result
          ELSE findFromBottom(hasPseudoToNative, frames, varName, i + 1)

\* findVariableInStack searching from the outermost frame.
findVariableInStackOutermostFirst(hasPseudoToNative, frames, varName) ==
  findFromBottom(hasPseudoToNative, frames, varName, 0)

\* findVariableInStack(interpreter, stack, varName)
findVariableInStack(hasPseudoToNative, frames, varName) ==
  findFrom(hasPseudoToNative, frames, varName, Len(frames) - 1)

\* The loop of collectVariablesFromStack over the names from position i on;
\* acc holds the variables recorded and the lookups made so far.
RECURSIVE collectFrom(_, _, _, _, _)
collectFrom(hasPseudoToNative, frames, names, i, acc) ==
  IF i > Len(names) THEN acc
  ELSE LET varName == names[i]
           result == findVariableInStack(hasPseudoToNative, frames, varName)
           record == result.found /\ result.value # Undefined
                       /\ varName \notin DOMAIN acc.variables
       IN collectFrom(hasPseudoToNative, frames, names, i + 1,
                      [variables |-> IF record
                                       THEN (varName :> result.value) @@ acc.variables
                                       ELSE acc.variables,
                       lookups |-> acc.lookups + 1])

\* collectVariablesFromStack without the early return.
collectVariablesFromStackNoEarlyReturn(hasPseudoToNative, frames, names) ==
  collectFrom(hasPseudoToNative, frames, names, 1,
              [variables |-> <<>>, lookups |-> 0])

\* collectVariablesFromStack(interpreter, stack, varNames)
collectVariablesFromStack(hasPseudoToNative, frames, names) ==
  IF Len(frames) = 0 \/ Len(names) = 0
    THEN [variables |-> <<>>, lookups |-> 0]
    ELSE collectFrom(hasPseudoToNative, frames, names, 1,
                     [variables |-> <<>>, lookups |-> 0])

NoCall == [fn |-> "none", name |-> ""]
NoFind == [found |-> FALSE, value |-> Undefined, scopeName |-> <<"">>]
NoCollect == [variables |-> <<>>, lookups |-> 0]

\* The controller's specification leaves the functions' inputs alone.
ScopeIdle ==
  /\ stack = <<>>
  /\ varNames = <<>>
  /\ convert = TRUE
  /\ call = NoCall
  /\ findResult = NoFind
  /\ collectResult = NoCollect

\* ------------------------------------------- the environment and initFunc
VARIABLES
  envHeap,        \* the variables objects of the environment provider, by reference
  environment,    \* the object environment.variables currently is
  engine,         \* what initFunc built: captured object, globals; or none
  observed        \* what the debugged program last read, and how

envVars == << envHeap, environment, engine, observed >>

\* ------------------------------------------------- the name extractor
VARIABLES
  namesThrow      \* whether extractVariableNames(code) throws when called

utilVars == << namesThrow >>

vars == << controllerVars, scopeVars, envVars, utilVars >>

EnvRefs == {1, 2}
Keys == <<"a", "b">>

\* The values a variables object can hold under a key; "u" is a value
\* nativeToPseudo cannot convert.
EnvContents ==
  { [k \in {"a", "b"} |-> IF k = "a" THEN va ELSE vb] :
      va \in {Absent, "n1", "n2", "u"}, vb \in {Absent, "n1"} }

\* interpreter.nativeToPseudo
nativeToPseudo(value) ==
  CASE value = "n1" -> [threw |-> FALSE, value |-> "p1"]
    [] value = "n2" -> [threw |-> FALSE, value |-> "p2"]
    [] OTHER -> [threw |-> TRUE, value |-> value]

\* JSON.stringify of a variables object, as a sequence of tokens.
JSONvalue(value) ==
  CASE value = "n1" -> "1"
    [] value = "n2" -> "2"
    [] OTHER -> "{}"

RECURSIVE JSONentries(_, _, _)
JSONentries(contents, i, first) ==
  IF i > Len(Keys) THEN <<>>
  ELSE IF contents[Keys[i]] = Absent THEN JSONentries(contents, i + 1, first)
  ELSE (IF first THEN <<>> ELSE <<",">>)
         \o <<Keys[i], ":", JSONvalue(contents[Keys[i]])>>
         \o JSONentries(contents, i + 1, FALSE)

JSONstringify(contents) == <<"{">> \o JSONentries(contents, 1, TRUE) \o <<"}">>

NoEngine == [built |-> FALSE, envVariables |-> 1,
             globalObject |-> [k \in {"a", "b"} |-> Absent],
             atInit |-> [k \in {"a", "b"} |-> Absent]]

\* initFunc giving up on the first entry nativeToPseudo cannot convert.
initFuncAborting(ref, contents) ==
  IF \E k \in {"a", "b"} :
       contents[k] # Absent /\ nativeToPseudo(contents[k]).threw
  THEN NoEngine
  ELSE [built |-> TRUE,
        envVariables |-> ref,
        globalObject |-> [k \in {"a", "b"} |->
                            IF contents[k] = Absent THEN Absent
                            ELSE nativeToPseudo(contents[k]).value],
        atInit |-> contents]

\* initFunc: envVariables is the provider's object itself;
\* each entry is bound as a global, converted, or raw when conversion throws.
\* atInit remembers what the object held at that moment.
initFunc(ref, contents) ==
  [built |-> TRUE,
   envVariables |-> ref,
   globalObject |-> [k \in {"a", "b"} |->
                       IF contents[k] = Absent THEN Absent
                       ELSE IF nativeToPseudo(contents[k]).threw THEN contents[k]
                       ELSE nativeToPseudo(contents[k]).value],
   atInit |-> contents]

\* getVariablesJSONWrapper: JSON.stringify(envVariables) when it is called.
getVariablesJSONWrapper(e) == JSONstringify(envHeap[e.envVariables])

NoRead == [fn |-> "none", key |-> "", value |-> <<>>]

\* The controller's specification leaves the environment alone.
EnvIdle ==
  /\ envHeap = [r \in EnvRefs |-> [k \in {"a", "b"} |-> Absent]]
  /\ environment = 1
  /\ engine = NoEngine
  /\ observed = NoRead

\* --------------------------------------------------------- the controller
Range(a, b) == [start |-> a, end |-> b]

\* String(value) of a literal's value.
Digits == <<"0", "1", "2", "3", "4", "5", "6", "7", "8", "9">>
String(value) == IF value.t = "number" THEN Digits[value.n + 1] ELSE value.s

\* Whether the program's first statement has run.
Assigned(o) == \E i \in 1..o.pc : o.text[Nodes(o.text)[i]] = "s"

\* The global scope: the program's variables are declared from the start and
\* hold values once its first statement has run.
GlobalScope(assigned) ==
  [kind |-> "object",
   vars |-> [n \in Names |-> IF ~assigned THEN Undefined
                             ELSE IF n = "x" THEN "p1" ELSE "p2"]]

\* The state stack with a node of the given kind being evaluated: the
\* Program frame, and above it the frame of that node.
StateStack(kind, assigned) ==
  LET program == [node |-> [type |-> "Program", callee |-> "", arguments |-> <<>>],
                  scope |-> GlobalScope(assigned)]
  IN IF kind = "Program" THEN <<program>>
     ELSE <<program,
            [node |-> [type |-> kind,
                       callee |-> IF kind \in ViewTokens THEN "view" ELSE "",
                       arguments |-> IF kind \in ViewTokens
                                       THEN <<ViewArgument(kind)>> ELSE <<>>],
             scope |-> GlobalScope(assigned)]>>

\* interpreter.getStateStack()
getStateStack(o) == StateStack(TopKind(o), Assigned(o))

\* The for loop with pairs.unshift in place of pairs.push.
RECURSIVE extractPairsNewestFirst(_, _, _)
extractPairsNewestFirst(elements, i, pairs) ==
  IF i > Len(elements) THEN [threw |-> FALSE, pairs |-> pairs]
  ELSE LET element == elements[i]
       IN IF element = NullElement THEN [threw |-> TRUE, pairs |-> pairs]
          ELSE IF element.type = "ArrayExpression" /\ Len(element.elements) >= 2
                    /\ element.elements[1].type = "Literal"
                    /\ element.elements[2].type = "Literal"
            THEN extractPairsNewestFirst(elements, i + 1,
                   <<<<String(element.elements[1].value),
                       String(element.elements[2].value)>>>> \o pairs)
          ELSE extractPairsNewestFirst(elements, i + 1, pairs)

\* The for loop of lines 178-190 from element i on; reading .type of an
\* elided (null) element throws.
RECURSIVE extractPairs(_, _, _)
extractPairs(elements, i, pairs) ==
  IF i > Len(elements) THEN [threw |-> FALSE, pairs |-> pairs]
  ELSE LET element == elements[i]
       IN IF element = NullElement THEN [threw |-> TRUE, pairs |-> pairs]
          ELSE IF element.type = "ArrayExpression" /\ Len(element.elements) >= 2
            THEN LET first == element.elements[1]
                     second == element.elements[2]
                 IN IF first = NullElement \/ second = NullElement
                      THEN [threw |-> TRUE, pairs |-> pairs]
                    ELSE IF first.type = "Literal" /\ second.type = "Literal"
                      THEN extractPairs(elements, i + 1,
                             Append(pairs, <<String(first.value), String(second.value)>>))
                    ELSE extractPairs(elements, i + 1, pairs)
          ELSE extractPairs(elements, i + 1, pairs)

NoExtraction ==
  [pairs |-> <<>>, names |-> <<>>, viewVariables |-> <<>>, notified |-> FALSE]

ViewError == "Could not extract view variables"

\* The extraction that collects every name in scope instead of the names of
\* the call's pairs.
extractFromFrameEveryName(frames) ==
  LET currentFrame == frames[Len(frames)]
      firstArg == currentFrame.node.arguments[1]
      r == extractPairs(firstArg.elements, 1, <<>>)
  IN IF r.threw
       THEN [NoExtraction EXCEPT !.viewVariables = ("[View Error]" :> ViewError)]
     ELSE IF Len(r.pairs) > 0
       THEN [pairs |-> r.pairs,
             names |-> <<"x", "y">>,
             viewVariables |-> collectVariablesFromStack(TRUE, frames, <<"x", "y">>).variables,
             notified |-> TRUE]
     ELSE NoExtraction

\* Lines 166-209 of getCurrentState, run on a stack whose top is a view
\* call: the pairs read from it, the names handed to
\* collectVariablesFromStack, the viewVariables of the snapshot, and whether
\* updateStepModeVariables ran.
extractFromFrame(frames) ==
  LET currentFrame == frames[Len(frames)]
      firstArg == currentFrame.node.arguments[1]
      r == extractPairs(firstArg.elements, 1, <<>>)
      viewVarNames == [i \in 1..Len(r.pairs) |-> r.pairs[i][1]]
  IN IF ~(currentFrame.node.callee = "view" /\ Len(currentFrame.node.arguments) >= 1)
       THEN NoExtraction
     ELSE IF firstArg.type # "ArrayExpression" THEN NoExtraction
     ELSE IF r.threw
       THEN [NoExtraction EXCEPT !.viewVariables = ("[View Error]" :> ViewError)]
     ELSE IF Len(r.pairs) > 0
       THEN [pairs |-> r.pairs,
             names |-> viewVarNames,
             viewVariables |-> collectVariablesFromStack(TRUE, frames, viewVarNames).variables,
             notified |-> TRUE]
     ELSE NoExtraction

\* That extraction for every stack a view call can be on top of.
Extractions ==
  [kind \in ViewTokens |->
     [assigned \in BOOLEAN |-> extractFromFrame(StateStack(kind, assigned))]]

\* Lines 162-210 of getCurrentState: atView, then the extraction from
\* interpreter.getStateStack().
extractView(o) ==
  IF ~isAtView(o) THEN NoExtraction
  ELSE Extractions[TopKind(o)][Assigned(o)]

\* What one call of getCurrentState does to the variable store: from is the
\* interpreter before the step that led to o (o itself when no step did).
Capture(from, o) ==
  LET e == extractView(o)
      sameCall == isAtView(from) /\ isAtView(o) /\ from.pc = o.pc
  IN pushes' = (IF sameCall THEN pushes ELSE 0) + (IF e.notified THEN 1 ELSE 0)

storeVars == << pushes >>

VariablesError == "Could not extract variables"

\* getCurrentState that swallows both extraction failures without a marker.
getCurrentStateUnmarked(o, stepNumber) ==
  [step |-> stepNumber,
   highlight |-> Range(TopNode(o).start, TopNode(o).end),
   nodeType |-> TopNode(o).type,
   variables |-> <<>>,
   viewVariables |-> IF "[View Error]" \in DOMAIN extractView(o).viewVariables
                       THEN <<>> ELSE extractView(o).viewVariables]

\* getCurrentState(interpreter, stepNumber): the snapshot of the current
\* position; node?.start || 0 and node?.end || 0 give the range, and
\* node?.type the node's type (in variables["Current Node Type"] and in the
\* stack trace).  variables holds the marker of the catch of lines 157-160
\* when extractVariableNames threw.
getCurrentState(o, stepNumber) ==
  [step |-> stepNumber,
   highlight |-> Range(TopNode(o).start, TopNode(o).end),
   nodeType |-> TopNode(o).type,
   variables |-> IF namesThrow THEN ("[Error]" :> VariablesError) ELSE <<>>,
   viewVariables |-> extractView(o).viewVariables]

\* initializeInterpreter whose catch returns null without calling setError.
initializeInterpreterSilentCatch(currentCode, loaded) ==
  IF ~loaded
    THEN [ok |-> FALSE, error |-> NotLoaded, obj |-> NoObject]
  ELSE IF Trim(currentCode) = <<>>
    THEN [ok |-> FALSE, error |-> NoCodeAvailable, obj |-> NoObject]
  ELSE IF ParseFails(currentCode)
    THEN [ok |-> FALSE, error |-> NoError, obj |-> NoObject]
  ELSE [ok |-> TRUE, error |-> NoError, obj |-> NewInterpreter(currentCode)]

\* initializeInterpreter(currentCode, environment, setError): the engine, or
\* none with the message handed to setError.
initializeInterpreter(currentCode, loaded) ==
  IF ~loaded
    THEN [ok |-> FALSE, error |-> NotLoaded, obj |-> NoObject]
  ELSE IF Trim(currentCode) = <<>>
    THEN [ok |-> FALSE, error |-> NoCodeAvailable, obj |-> NoObject]
  ELSE IF ParseFails(currentCode)
    THEN [ok |-> FALSE, error |-> <<"Code error: ", ParseErrorText>>, obj |-> NoObject]
  ELSE [ok |-> TRUE, error |-> NoError, obj |-> NewInterpreter(currentCode)]

\* setHistory written without the functional update: the new state alone.
setHistoryReplacing(prev, newState) == <<newState>>

\* setHistory((prev) => [...prev, newState])
setHistory(prev, newState) == Append(prev, newState)

\* The loop condition written stepsCount <= maxSteps.
WithinCeilingInclusive(n) == n <= maxSteps

\* The loop condition stepsCount < maxSteps of both stepToView loops.
WithinCeiling(n) == n < maxSteps

\* autoPlayIntervalRef.current = null after clearInterval
NoTimer ==
  [pending |-> FALSE, interpreter |-> Null, isComplete |-> FALSE,
   historyLength |-> 0, isSteppingToView |-> FALSE]

\* What the handlers of the current render close over.
RenderClosure ==
  [interpreter |-> interpreter, isComplete |-> isComplete,
   historyLength |-> Len(history), isSteppingToView |-> isSteppingToView]

\* A reference no live object has.
FreshRef == IF interpreter = 1 THEN 2 ELSE 1

ControllerInit ==
  /\ code = <<>>
  /\ windowInterpreter \in BOOLEAN
  /\ isOpen = TRUE
  /\ interpreter = Null
  /\ heap = [r \in Refs |-> NoObject]
  /\ history = <<>>
  /\ isRunning = FALSE
  /\ isComplete = FALSE
  /\ error = NoError
  /\ isSteppingToView = FALSE
  /\ autoPlayIntervalRef = NoTimer
  /\ highlighted = Range(0, 0)
  /\ pc = "idle"
  /\ stepsCount = 0
  /\ stillAtSameView = FALSE
  /\ capturedLen = 0
  /\ op = "none"
  /\ callsInOp = 0
  /\ pushes = 0

UtilIdle == namesThrow = FALSE

Init == ControllerInit /\ ScopeIdle /\ EnvIdle /\ UtilIdle

locals == << pc, stepsCount, stillAtSameView, capturedLen >>
props == << windowInterpreter, isOpen >>

\* useEffect(..., [environment]): extractManual's result replaces the code.
EnvironmentChange ==
  /\ pc = "idle"
  /\ UNCHANGED << scopeVars, envVars, utilVars, storeVars >>
  /\ \E result \in [kind : {"error"}, code : {<<>>}] \cup [kind : {"code"}, code : Programs] :
       IF result.kind = "error"
         THEN /\ error' = ExtractError
              /\ code' = code
         ELSE /\ code' = result.code
              /\ error' = NoError
  /\ op' = "environment"
  /\ callsInOp' = 0
  /\ UNCHANGED << props, interpreter, heap, history, isRunning, isComplete,
                  isSteppingToView, autoPlayIntervalRef, highlighted, locals >>

\* The page finishes loading the interpreter script.
LoadInterpreter ==
  /\ pc = "idle"
  /\ UNCHANGED << scopeVars, envVars, utilVars, storeVars >>
  /\ ~windowInterpreter
  /\ windowInterpreter' = TRUE
  /\ op' = "load"
  /\ callsInOp' = 0
  /\ UNCHANGED << code, isOpen, interpreter, heap, history, isRunning, isComplete,
                  error, isSteppingToView, autoPlayIntervalRef, highlighted, locals >>

\* The parent shows or hides the modal (onClose; if (!isOpen) return null).
Close ==
  /\ pc = "idle"
  /\ UNCHANGED << scopeVars, envVars, utilVars, storeVars >>
  /\ isOpen
  /\ isOpen' = FALSE
  /\ op' = "close"
  /\ callsInOp' = 0
  /\ UNCHANGED << code, windowInterpreter, interpreter, heap, history, isRunning,
                  isComplete, error, isSteppingToView, autoPlayIntervalRef,
                  highlighted, locals >>

Open ==
  /\ pc = "idle"
  /\ UNCHANGED << scopeVars, envVars, utilVars, storeVars >>
  /\ ~isOpen
  /\ isOpen' = TRUE
  /\ op' = "open"
  /\ callsInOp' = 0
  /\ UNCHANGED << code, windowInterpreter, interpreter, heap, history, isRunning,
                  isComplete, error, isSteppingToView, autoPlayIntervalRef,
                  highlighted, locals >>

\* The resets without setIsComplete(false).
RefreshResetKeepingComplete ==
  /\ isComplete' = isComplete
  /\ isRunning' = FALSE
  /\ isSteppingToView' = FALSE
  /\ autoPlayIntervalRef' = NoTimer

\* refresh, lines 226-236: the resets every refresh makes.
RefreshReset ==
  /\ isComplete' = FALSE
  /\ isRunning' = FALSE
  /\ isSteppingToView' = FALSE
  /\ autoPlayIntervalRef' = NoTimer

\* refresh that keeps the new interpreter and never stores the initial snapshot.
RefreshWithoutInitialState ==
  /\ pc = "idle"
  /\ UNCHANGED << scopeVars, envVars, utilVars >>
  /\ isOpen
  /\ ~(isRunning \/ isSteppingToView)
  /\ RefreshReset
  /\ LET made == initializeInterpreter(code, windowInterpreter)
         initialState == getCurrentState(made.obj, 0)
     IN IF Trim(code) = <<>>
          THEN /\ error' = NoCodeToDebug
               /\ interpreter' = Null
               /\ heap' = [r \in Refs |-> NoObject]
               /\ history' = <<>>
               /\ highlighted' = Range(0, 0)
               /\ pushes' = 0
        ELSE IF ~made.ok
          THEN /\ error' = made.error
               /\ interpreter' = Null
               /\ heap' = [r \in Refs |-> NoObject]
               /\ history' = <<>>
               /\ highlighted' = Range(0, 0)
               /\ pushes' = 0
        ELSE /\ error' = NoError
             /\ interpreter' = FreshRef
             /\ heap' = [r \in Refs |-> IF r = FreshRef THEN made.obj ELSE NoObject]
             /\ history' = <<>>
             /\ highlighted' = initialState.highlight
             /\ Capture(made.obj, made.obj)
  /\ op' = "refresh"
  /\ callsInOp' = 0
  /\ UNCHANGED << code, props, locals >>

\* refresh enabled while auto-play runs and without its clearInterval.
RefreshKeepingTimer ==
  /\ pc = "idle"
  /\ UNCHANGED << scopeVars, envVars, utilVars >>
  /\ isOpen
  /\ ~isSteppingToView
  /\ isComplete' = FALSE
  /\ isRunning' = isRunning
  /\ isSteppingToView' = FALSE
  /\ autoPlayIntervalRef' = autoPlayIntervalRef
  /\ LET made == initializeInterpreter(code, windowInterpreter)
         initialState == getCurrentState(made.obj, 0)
     IN IF Trim(code) = <<>> \/ ~made.ok
          THEN /\ error' = IF Trim(code) = <<>> THEN NoCodeToDebug ELSE made.error
               /\ interpreter' = Null
               /\ heap' = [r \in Refs |-> NoObject]
               /\ history' = <<>>
               /\ highlighted' = Range(0, 0)
               /\ pushes' = 0
          ELSE /\ error' = NoError
               /\ interpreter' = FreshRef
               /\ heap' = [r \in Refs |-> IF r = FreshRef THEN made.obj ELSE NoObject]
               /\ history' = <<initialState>>
               /\ highlighted' = initialState.highlight
               /\ Capture(made.obj, made.obj)
  /\ op' = "refresh"
  /\ callsInOp' = 0
  /\ UNCHANGED << code, props, locals >>

\* refresh, from the refresh button (disabled while running or stepping).
Refresh ==
  /\ pc = "idle"
  /\ UNCHANGED << scopeVars, envVars, utilVars >>
  /\ isOpen
  /\ ~(isRunning \/ isSteppingToView)
  /\ RefreshReset
  /\ LET made == initializeInterpreter(code, windowInterpreter)
         initialState == getCurrentState(made.obj, 0)
     IN IF Trim(code) = <<>>
          THEN /\ error' = NoCodeToDebug
               /\ interpreter' = Null
               /\ heap' = [r \in Refs |-> NoObject]
               /\ history' = <<>>
               /\ highlighted' = Range(0, 0)
               /\ pushes' = 0
        ELSE IF ~made.ok
          THEN /\ error' = made.error
               /\ interpreter' = Null
               /\ heap' = [r \in Refs |-> NoObject]
               /\ history' = <<>>
               /\ highlighted' = Range(0, 0)
               /\ pushes' = 0
        ELSE /\ error' = NoError
             /\ interpreter' = FreshRef
             /\ heap' = [r \in Refs |-> IF r = FreshRef THEN made.obj ELSE NoObject]
             /\ history' = <<initialState>>
             /\ highlighted' = initialState.highlight
             /\ Capture(made.obj, made.obj)
  /\ op' = "refresh"
  /\ callsInOp' = 0
  /\ UNCHANGED << code, props, locals >>

\* stepForward whose completion branch leaves the timer and isRunning alone.
stepForwardKeepingTimer(c) ==
  IF c.interpreter = Null \/ c.isComplete
    THEN /\ callsInOp' = 0
         /\ UNCHANGED << heap, history, isRunning, isComplete, error,
                         isSteppingToView, autoPlayIntervalRef, highlighted,
                         storeVars >>
    ELSE \E r \in {step(heap[c.interpreter])} :
         \E newState \in {getCurrentState(r.obj, c.historyLength)} :
            /\ callsInOp' = 1
            /\ IF r.ret = "throw"
                 THEN /\ error' = <<"Execution error: ", "thrown">>
                      /\ isRunning' = FALSE
                      /\ isSteppingToView' = FALSE
                      /\ autoPlayIntervalRef' = NoTimer
                      /\ UNCHANGED << heap, history, isComplete, highlighted,
                                      storeVars >>
                 ELSE /\ heap' = [heap EXCEPT ![c.interpreter] = r.obj]
                      /\ Capture(heap[c.interpreter], r.obj)
                      /\ history' = setHistory(history, newState)
                      /\ highlighted' = newState.highlight
                      /\ IF r.ret = "false"
                           THEN /\ isComplete' = TRUE
                                /\ isSteppingToView' = FALSE
                                /\ UNCHANGED << isRunning, autoPlayIntervalRef >>
                           ELSE /\ isSteppingToView' =
                                     IF c.isSteppingToView /\ isAtView(r.obj)
                                       THEN FALSE ELSE isSteppingToView
                                /\ UNCHANGED << isComplete, isRunning, autoPlayIntervalRef >>
                      /\ error' = error

\* stepForward, run in the closure c.
stepForward(c) ==
  IF c.interpreter = Null \/ c.isComplete
    THEN /\ callsInOp' = 0
         /\ UNCHANGED << heap, history, isRunning, isComplete, error,
                         isSteppingToView, autoPlayIntervalRef, highlighted,
                         storeVars >>
    ELSE \E r \in {step(heap[c.interpreter])} :
         \E newState \in {getCurrentState(r.obj, c.historyLength)} :
            /\ callsInOp' = 1
            /\ IF r.ret = "throw"
                 THEN /\ error' = <<"Execution error: ", "thrown">>
                      /\ isRunning' = FALSE
                      /\ isSteppingToView' = FALSE
                      /\ autoPlayIntervalRef' = NoTimer
                      /\ UNCHANGED << heap, history, isComplete, highlighted,
                                      storeVars >>
                 ELSE /\ heap' = [heap EXCEPT ![c.interpreter] = r.obj]
                      /\ Capture(heap[c.interpreter], r.obj)
                      /\ history' = setHistory(history, newState)
                      /\ highlighted' = newState.highlight
                      /\ IF r.ret = "false"
                           THEN /\ isComplete' = TRUE
                                /\ isRunning' = FALSE
                                /\ isSteppingToView' = FALSE
                                /\ autoPlayIntervalRef' = NoTimer
                           ELSE /\ isSteppingToView' =
                                     IF c.isSteppingToView /\ isAtView(r.obj)
                                       THEN FALSE ELSE isSteppingToView
                                /\ UNCHANGED << isComplete, isRunning, autoPlayIntervalRef >>
                      /\ error' = error

\* The step-forward button.
StepForward ==
  /\ pc = "idle"
  /\ UNCHANGED << scopeVars, envVars, utilVars >>
  /\ isOpen
  /\ ~(interpreter = Null \/ isRunning \/ isComplete \/ isSteppingToView)
  /\ Len(history) < MaxHistory
  /\ stepForward(RenderClosure)
  /\ op' = "stepForward"
  /\ UNCHANGED << code, props, interpreter, locals >>

\* A tick of the auto-play timer: the stepForward toggleAutoPlay closed over.
AutoPlayTick ==
  /\ pc = "idle"
  /\ UNCHANGED << scopeVars, envVars, utilVars >>
  /\ autoPlayIntervalRef.pending
  /\ Len(history) < MaxHistory
  /\ stepForward(autoPlayIntervalRef)
  /\ op' = "tick"
  /\ UNCHANGED << code, props, interpreter, locals >>

\* stepBackward reading history[history.length - 1].
StepBackwardOffByOne ==
  /\ pc = "idle"
  /\ UNCHANGED << scopeVars, envVars, utilVars, storeVars >>
  /\ isOpen
  /\ ~(Len(history) <= 1 \/ isRunning \/ isSteppingToView)
  /\ highlighted' = history[Len(history)].highlight
  /\ op' = "stepBackward"
  /\ callsInOp' = 0
  /\ UNCHANGED << code, props, interpreter, heap, history, isRunning, isComplete,
                  error, isSteppingToView, autoPlayIntervalRef, locals >>

\* stepBackward walking back from the snapshot whose range is highlighted.
StepBackwardWalking ==
  /\ pc = "idle"
  /\ UNCHANGED << scopeVars, envVars, utilVars, storeVars >>
  /\ isOpen
  /\ ~(Len(history) <= 1 \/ isRunning \/ isSteppingToView)
  /\ LET shown == { i \in 1..Len(history) : history[i].highlight = highlighted }
         from == IF shown = {} THEN Len(history)
                 ELSE CHOOSE i \in shown : \A j \in shown : j <= i
     IN highlighted' = history[IF from <= 1 THEN 1 ELSE from - 1].highlight
  /\ op' = "stepBackward"
  /\ callsInOp' = 0
  /\ UNCHANGED << code, props, interpreter, heap, history, isRunning, isComplete,
                  error, isSteppingToView, autoPlayIntervalRef, locals >>

\* stepBackward, from the step-back button.
StepBackward ==
  /\ pc = "idle"
  /\ UNCHANGED << scopeVars, envVars, utilVars, storeVars >>
  /\ isOpen
  /\ ~(Len(history) <= 1 \/ isRunning \/ isSteppingToView)
  /\ IF Len(history) <= 1
       THEN highlighted' = highlighted
       ELSE highlighted' = history[Len(history) - 1].highlight
  /\ op' = "stepBackward"
  /\ callsInOp' = 0
  /\ UNCHANGED << code, props, interpreter, heap, history, isRunning, isComplete,
                  error, isSteppingToView, autoPlayIntervalRef, locals >>

\* toggleAutoPlay starting the timer without setIsRunning(true).
ToggleAutoPlayUnflagged ==
  /\ pc = "idle"
  /\ UNCHANGED << scopeVars, envVars, utilVars, storeVars >>
  /\ isOpen
  /\ ~(interpreter = Null \/ isComplete \/ isSteppingToView)
  /\ IF autoPlayIntervalRef.pending
       THEN /\ autoPlayIntervalRef' = NoTimer
            /\ isRunning' = FALSE
       ELSE /\ isRunning' = isRunning
            /\ autoPlayIntervalRef' =
                 [pending |-> TRUE, interpreter |-> interpreter,
                  isComplete |-> isComplete, historyLength |-> Len(history),
                  isSteppingToView |-> isSteppingToView]
  /\ op' = "toggleAutoPlay"
  /\ callsInOp' = 0
  /\ UNCHANGED << code, props, interpreter, heap, history, isComplete, error,
                  isSteppingToView, highlighted, locals >>

\* toggleAutoPlay that clears the timer and leaves isRunning set.
ToggleAutoPlayStillRunning ==
  /\ pc = "idle"
  /\ UNCHANGED << scopeVars, envVars, utilVars, storeVars >>
  /\ isOpen
  /\ ~(interpreter = Null \/ isComplete \/ isSteppingToView)
  /\ IF autoPlayIntervalRef.pending
       THEN /\ autoPlayIntervalRef' = NoTimer
            /\ isRunning' = isRunning
       ELSE /\ isRunning' = TRUE
            /\ autoPlayIntervalRef' =
                 [pending |-> TRUE, interpreter |-> interpreter,
                  isComplete |-> isComplete, historyLength |-> Len(history),
                  isSteppingToView |-> isSteppingToView]
  /\ op' = "toggleAutoPlay"
  /\ callsInOp' = 0
  /\ UNCHANGED << code, props, interpreter, heap, history, isComplete, error,
                  isSteppingToView, highlighted, locals >>

\* toggleAutoPlay, from the play/pause button.
ToggleAutoPlay ==
  /\ pc = "idle"
  /\ UNCHANGED << scopeVars, envVars, utilVars, storeVars >>
  /\ isOpen
  /\ ~(interpreter = Null \/ isComplete \/ isSteppingToView)
  /\ IF autoPlayIntervalRef.pending
       THEN /\ autoPlayIntervalRef' = NoTimer
            /\ isRunning' = FALSE
       ELSE /\ isRunning' = TRUE
            /\ autoPlayIntervalRef' =
                 [pending |-> TRUE, interpreter |-> interpreter,
                  isComplete |-> isComplete, historyLength |-> Len(history),
                  isSteppingToView |-> isSteppingToView]
  /\ op' = "toggleAutoPlay"
  /\ callsInOp' = 0
  /\ UNCHANGED << code, props, interpreter, heap, history, isComplete, error,
                  isSteppingToView, highlighted, locals >>

\* stepToView returns: its locals go out of scope.
Return ==
  /\ pc' = "idle"
  /\ stepsCount' = 0
  /\ stillAtSameView' = FALSE
  /\ capturedLen' = 0

\* The catch of stepToView without its setIsSteppingToView(false).
stepToViewCatchKeepingFlag ==
  /\ error' = <<"Execution error: ", "thrown">>
  /\ isSteppingToView' = isSteppingToView
  /\ Return
  /\ UNCHANGED << heap, history, isComplete, highlighted, storeVars >>

\* stepToView's catch, lines 391-394.
stepToViewCatch ==
  /\ error' = <<"Execution error: ", "thrown">>
  /\ isSteppingToView' = FALSE
  /\ Return
  /\ UNCHANGED << heap, history, isComplete, highlighted, storeVars >>

\* The loop body without its setHistory.
stepAndCaptureWithoutAppend(r) ==
  /\ heap' = [heap EXCEPT ![interpreter] = r.obj]
  /\ Capture(heap[interpreter], r.obj)
  /\ history' = history
  /\ highlighted' = getCurrentState(r.obj, capturedLen).highlight
  /\ error' = error

\* One iteration of either stepToView loop up to its test of canContinue:
\* step, capture with the closure's history.length, append, highlight.
stepAndCapture(r) ==
  /\ heap' = [heap EXCEPT ![interpreter] = r.obj]
  /\ Capture(heap[interpreter], r.obj)
  /\ history' = setHistory(history, getCurrentState(r.obj, capturedLen))
  /\ highlighted' = getCurrentState(r.obj, capturedLen).highlight
  /\ error' = error

\* stepToView without the loop that steps past the current view.
StepToViewBeginSkippingPast ==
  /\ pc = "idle"
  /\ UNCHANGED << scopeVars, envVars, utilVars, storeVars >>
  /\ isOpen
  /\ ~(interpreter = Null \/ isComplete \/ isSteppingToView)
  /\ Len(history) < MaxHistory
  /\ isSteppingToView' = TRUE
  /\ stepsCount' = 0
  /\ capturedLen' = Len(history)
  /\ stillAtSameView' = isAtView(heap[interpreter])
  /\ pc' = "seek"
  /\ op' = "stepToView"
  /\ callsInOp' = 0
  /\ UNCHANGED << code, props, interpreter, heap, history, isRunning, isComplete,
                  error, autoPlayIntervalRef, highlighted >>

\* stepToView, from the view button, up to the first loop (lines 310-323).
StepToViewBegin ==
  /\ pc = "idle"
  /\ UNCHANGED << scopeVars, envVars, utilVars, storeVars >>
  /\ isOpen
  /\ ~(interpreter = Null \/ isComplete \/ isSteppingToView)
  /\ Len(history) < MaxHistory
  /\ isSteppingToView' = TRUE
  /\ stepsCount' = 0
  /\ capturedLen' = Len(history)
  /\ stillAtSameView' = isAtView(heap[interpreter])
  /\ pc' = IF isAtView(heap[interpreter]) THEN "past" ELSE "seek"
  /\ op' = "stepToView"
  /\ callsInOp' = 0
  /\ UNCHANGED << code, props, interpreter, heap, history, isRunning, isComplete,
                  error, autoPlayIntervalRef, highlighted >>

\* An iteration of the loop that steps past the current view (lines 327-347).
StepPastIteration ==
  /\ pc = "past"
  /\ UNCHANGED << scopeVars, envVars, utilVars >>
  /\ stillAtSameView /\ WithinCeiling(stepsCount)
  /\ callsInOp' = callsInOp + 1
  /\ \E r \in {step(heap[interpreter])} :
        IF r.ret = "throw" THEN stepToViewCatch
        ELSE /\ stepAndCapture(r)
             /\ IF r.ret = "false"
                  THEN /\ isComplete' = TRUE
                       /\ isSteppingToView' = FALSE
                       /\ Return
                  ELSE /\ stillAtSameView' = isAtView(r.obj)
                       /\ stepsCount' = stepsCount + 1
                       /\ UNCHANGED << isComplete, isSteppingToView, pc, capturedLen >>
  /\ UNCHANGED << code, props, interpreter, isRunning, autoPlayIntervalRef, op >>

\* The step-past ceiling's return with setIsComplete(true) added.
StepPastExitCompleting ==
  /\ pc = "past"
  /\ UNCHANGED << scopeVars, envVars, utilVars, storeVars >>
  /\ ~(stillAtSameView /\ WithinCeiling(stepsCount))
  /\ IF stepsCount >= maxSteps
       THEN /\ error' = PastCeilingError
            /\ isSteppingToView' = FALSE
            /\ isComplete' = TRUE
            /\ Return
       ELSE /\ pc' = "seek"
            /\ UNCHANGED << error, isSteppingToView, stepsCount, stillAtSameView,
                            capturedLen, isComplete >>
  /\ UNCHANGED << code, props, interpreter, heap, history, isRunning,
                  autoPlayIntervalRef, highlighted, op, callsInOp >>

\* After that loop (lines 349-356).
StepPastExit ==
  /\ pc = "past"
  /\ UNCHANGED << scopeVars, envVars, utilVars, storeVars >>
  /\ ~(stillAtSameView /\ WithinCeiling(stepsCount))
  /\ IF stepsCount >= maxSteps
       THEN /\ error' = PastCeilingError
            /\ isSteppingToView' = FALSE
            /\ Return
       ELSE /\ pc' = "seek"
            /\ UNCHANGED << error, isSteppingToView, stepsCount, stillAtSameView,
                            capturedLen >>
  /\ UNCHANGED << code, props, interpreter, heap, history, isRunning, isComplete,
                  autoPlayIntervalRef, highlighted, op, callsInOp >>

\* An iteration of the loop that seeks the next view (lines 361-384).
SeekIteration ==
  /\ pc = "seek"
  /\ UNCHANGED << scopeVars, envVars, utilVars >>
  /\ WithinCeiling(stepsCount)
  /\ callsInOp' = callsInOp + 1
  /\ \E r \in {step(heap[interpreter])} :
        IF r.ret = "throw" THEN stepToViewCatch
        ELSE /\ stepAndCapture(r)
             /\ IF r.ret = "false"
                  THEN /\ isComplete' = TRUE
                       /\ isSteppingToView' = FALSE
                       /\ Return
                  ELSE IF isAtView(r.obj)
                  THEN /\ isSteppingToView' = FALSE
                       /\ Return
                       /\ UNCHANGED isComplete
                  ELSE /\ stepsCount' = stepsCount + 1
                       /\ UNCHANGED << isComplete, isSteppingToView, pc,
                                       stillAtSameView, capturedLen >>
  /\ UNCHANGED << code, props, interpreter, isRunning, autoPlayIntervalRef, op >>

\* The ceiling's return without setIsSteppingToView(false).
SeekExitKeepingFlag ==
  /\ pc = "seek"
  /\ UNCHANGED << scopeVars, envVars, utilVars, storeVars >>
  /\ ~WithinCeiling(stepsCount)
  /\ IF stepsCount >= maxSteps
       THEN /\ error' = SeekCeilingError
            /\ isSteppingToView' = isSteppingToView
       ELSE UNCHANGED << error, isSteppingToView >>
  /\ Return
  /\ UNCHANGED << code, props, interpreter, heap, history, isRunning, isComplete,
                  autoPlayIntervalRef, highlighted, op, callsInOp >>

\* After that loop (lines 386-390).
SeekExit ==
  /\ pc = "seek"
  /\ UNCHANGED << scopeVars, envVars, utilVars, storeVars >>
  /\ ~WithinCeiling(stepsCount)
  /\ IF stepsCount >= maxSteps
       THEN /\ error' = SeekCeilingError
            /\ isSteppingToView' = FALSE
       ELSE UNCHANGED << error, isSteppingToView >>
  /\ Return
  /\ UNCHANGED << code, props, interpreter, heap, history, isRunning, isComplete,
                  autoPlayIntervalRef, highlighted, op, callsInOp >>

\* The loops of a running stepToView: synchronous, nothing else runs meanwhile.
StepToViewRun ==
  \/ StepPastIteration
  \/ StepPastExit
  \/ SeekIteration
  \/ SeekExit

Next ==
  \/ EnvironmentChange
  \/ LoadInterpreter
  \/ Refresh
  \/ StepForward
  \/ AutoPlayTick
  \/ StepBackward
  \/ ToggleAutoPlay
  \/ StepToViewBegin
  \/ StepPastIteration
  \/ StepPastExit
  \/ SeekIteration
  \/ SeekExit
  \/ Close
  \/ Open

Spec == Init /\ [][Next]_vars

\* ---- the scope resolver and the variable collector on their own inputs
RECURSIVE SeqsUpTo(_, _)
SeqsUpTo(S, n) ==
  IF n = 0 THEN {<<>>}
  ELSE SeqsUpTo(S, n - 1) \cup
       {Append(q, e) : q \in {r \in SeqsUpTo(S, n - 1) : Len(r) = n - 1}, e \in S}

ScopeInit ==
  /\ ControllerInit
  /\ windowInterpreter
  /\ stack \in SeqsUpTo(Frames, MaxStack)
  /\ varNames \in SeqsUpTo(Names, MaxNames)
  /\ convert \in BOOLEAN
  /\ call = NoCall
  /\ findResult = NoFind
  /\ collectResult = NoCollect
  /\ EnvIdle
  /\ UtilIdle

\* findVariableInStack applied to the stack and one name.
FindVariable ==
  /\ \E n \in Names :
       /\ findResult' = findVariableInStack(convert, stack, n)
       /\ call' = [fn |-> "find", name |-> n]
  /\ collectResult' = NoCollect
  /\ UNCHANGED << controllerVars, utilVars, envVars, stack, varNames, convert >>

\* collectVariablesFromStack applied to the stack and the name list.
CollectVariables ==
  /\ collectResult' = collectVariablesFromStack(convert, stack, varNames)
  /\ call' = [fn |-> "collect", name |-> ""]
  /\ findResult' = NoFind
  /\ UNCHANGED << controllerVars, utilVars, envVars, stack, varNames, convert >>

ScopeNext ==
  \/ FindVariable
  \/ CollectVariables

ScopeSpec == ScopeInit /\ [][ScopeNext]_vars

\* ---- initFunc and the environment provider on their own
EnvInit ==
  /\ ControllerInit
  /\ windowInterpreter
  /\ ScopeIdle
  /\ envHeap \in [EnvRefs -> {c \in EnvContents : c["b"] = Absent}]
  /\ environment = 1
  /\ engine = NoEngine
  /\ observed = NoRead
  /\ UtilIdle

\* initializeInterpreter, from refresh: new Interpreter(code, initFunc).
Initialize ==
  /\ engine' = initFunc(environment, envHeap[environment])
  /\ observed' = NoRead
  /\ UNCHANGED << controllerVars, utilVars, scopeVars, envHeap, environment >>

\* The provider changes one value of its variables object in place.
MutateEnvironment ==
  /\ \E k \in {"a", "b"}, v \in {Absent, "n1", "n2", "u"} :
       /\ [envHeap[environment] EXCEPT ![k] = v] \in EnvContents
       /\ envHeap[environment][k] # v
       /\ envHeap' = [envHeap EXCEPT ![environment][k] = v]
  /\ UNCHANGED << controllerVars, utilVars, scopeVars, environment, engine, observed >>

\* The provider hands out another variables object.
ReplaceEnvironment ==
  /\ \E r \in EnvRefs :
       /\ r # environment
       /\ engine.built => r # engine.envVariables
       /\ environment' = r
  /\ UNCHANGED << controllerVars, utilVars, scopeVars, envHeap, engine, observed >>

\* The debugged program calls getVariablesJSON().
CallGetVariablesJSON ==
  /\ engine.built
  /\ observed' = [fn |-> "json", key |-> "", value |-> getVariablesJSONWrapper(engine)]
  /\ UNCHANGED << controllerVars, utilVars, scopeVars, envHeap, environment, engine >>

\* The debugged program reads a global binding.
ReadGlobal ==
  /\ engine.built
  /\ \E k \in {"a", "b"} :
       observed' = [fn |-> "global", key |-> k, value |-> <<engine.globalObject[k]>>]
  /\ UNCHANGED << controllerVars, utilVars, scopeVars, envHeap, environment, engine >>

EnvNext ==
  \/ Initialize
  \/ MutateEnvironment
  \/ ReplaceEnvironment
  \/ CallGetVariablesJSON
  \/ ReadGlobal

EnvSpec == EnvInit /\ [][EnvNext]_vars

\* A running stepToView runs on to its return.
FairSpec == Spec /\ WF_vars(StepToViewRun)

\* The interval set by toggleAutoPlay keeps firing while it is pending.
AutoPlaySpec == Spec /\ WF_vars(AutoPlayTick)

\* The controller with an extractVariableNames that may throw.
ExtractInit == ControllerInit /\ ScopeIdle /\ EnvIdle /\ namesThrow \in BOOLEAN

ExtractSpec == ExtractInit /\ [][Next]_vars

\* ------------------------------------------------------------ properties
IsPrefix(s, t) == Len(s) <= Len(t) /\ SubSeq(t, 1, Len(s)) = s

\* The step() a handler is about to make throws.
StepThrows == interpreter # Null /\ step(heap[interpreter]).ret = "throw"

\* This transition made a call of step().
CalledStep ==
  \/ op' \in {"stepForward", "tick"} /\ callsInOp' = 1
  \/ pc \in {"past", "seek"} /\ callsInOp' = callsInOp + 1

\* C1: history is append-only: stepBackward leaves it as it is, and every
\* operation other than refresh leaves the previous history as a prefix of
\* the new one.
C1_HistoryAppendOnly ==
  [][ /\ (op' = "stepBackward" => history' = history)
      /\ (op' # "refresh" => IsPrefix(history, history')) ]_vars

\* A step back taken after two snapshots were appended to the initial one.
C1_Witness == op = "stepBackward" /\ Len(history) >= 3

\* C2: once the session is Complete, a stepForward, manual or from a timer
\* tick, calls step() zero times and appends nothing.
C2_CompleteStepForwardNoOp ==
  [][ (isComplete /\ op' \in {"stepForward", "tick"})
        => (callsInOp' = 0 /\ history' = history) ]_vars

\* C3: one stepToView calls step() at most maxSteps times, both loops
\* counted together.
C3_StepCeiling == op = "stepToView" => callsInOp <= maxSteps

\* stepToView stepped past a view and then ran into the ceiling while seeking.
C3_Witness ==
  /\ pc = "idle" /\ op = "stepToView"
  /\ code = <<"v", "k">> /\ Len(history) = 2 + maxSteps
  /\ callsInOp = maxSteps /\ error = SeekCeilingError

\* C4: stepToView seeking through a program that loops forever without a view
\* returns, with the ceiling's message surfaced, the session not Complete and
\* isSteppingToView cleared.
C4_CeilingTerminates ==
  (pc = "seek" /\ TopKind(heap[interpreter]) = "k")
    ~> (/\ pc = "idle" /\ op = "stepToView"
        /\ error = SeekCeilingError /\ interpreter # Null
        /\ ~isComplete /\ ~isSteppingToView)

\* stepToView has returned from the ceiling on the looping program.
C4_Witness ==
  /\ pc = "idle" /\ op = "stepToView" /\ code = <<"s", "k">>
  /\ error = SeekCeilingError /\ ~isComplete /\ ~isSteppingToView
  /\ TopKind(heap[interpreter]) = "k"

\* C5: the snapshot at position i of the history carries step index i.
C5_StepIndexIsPosition ==
  \A i \in 1..Len(history) : history[i].step = i - 1

\* C6: refresh, a manual stepForward, stepToView and close leave no auto-play
\* timer pending once they have begun.
C6_TimerCancelledFirst ==
  [][ op' \in {"refresh", "stepForward", "stepToView", "close"}
        => ~autoPlayIntervalRef'.pending ]_vars

\* C7: when step() throws in stepForward or in a loop of stepToView, the
\* session has an error message, the interpreter and history are as before the
\* call, the timer is cancelled and isRunning and isSteppingToView are false.
C7_ThrowEntersError ==
  [][ (StepThrows /\ CalledStep)
        => /\ error' # NoError
           /\ interpreter' = interpreter /\ heap' = heap
           /\ history' = history
           /\ ~autoPlayIntervalRef'.pending
           /\ ~isRunning' /\ ~isSteppingToView' ]_vars

\* C8: a refresh of a non-empty program that initializes replaces the
\* session: no timer, a fresh interpreter at its start, history = [snapshot 0],
\* no error, isRunning, isComplete and isSteppingToView false.
C8_RefreshReplaces ==
  [][ (op' = "refresh" /\ Trim(code) # <<>> /\ windowInterpreter /\ ~ParseFails(code))
        => /\ ~autoPlayIntervalRef'.pending
           /\ interpreter' # Null /\ interpreter' # interpreter
           /\ heap'[interpreter'].text = code
           /\ heap'[interpreter'].pc = 0 /\ ~heap'[interpreter'].done
           /\ Len(history') = 1 /\ history'[1].step = 0
           /\ history'[1].highlight = Range(0, Len(code))
           /\ error' = NoError
           /\ ~isRunning' /\ ~isComplete' /\ ~isSteppingToView' ]_vars

\* A refresh that replaced a live session.
C8_Witness ==
  /\ op = "refresh" /\ interpreter = 2
  /\ Len(history) = 1 /\ ~isComplete /\ error = NoError

\* C9: after a refresh there is no interpreter exactly when the interpreter
\* is not loaded, the program is empty or white space, or it fails to parse;
\* then an error is reported (with the parser's text in the parse case) and
\* the history is empty; otherwise no error is reported.
C9_InitializationFailure ==
  op = "refresh" =>
    LET parseCase == windowInterpreter /\ Trim(code) # <<>> /\ ParseFails(code)
        fails == ~windowInterpreter \/ Trim(code) = <<>> \/ ParseFails(code)
    IN /\ (interpreter = Null) <=> fails
       /\ fails => (error # NoError /\ history = <<>>)
       /\ parseCase => \E i \in 1..Len(error) : error[i] = ParseErrorText
       /\ ~fails => (error = NoError /\ interpreter # Null)

\* A refresh of a program the parser rejected.
C9_Witness ==
  /\ op = "refresh" /\ windowInterpreter /\ ParseFails(code)
  /\ interpreter = Null /\ error # NoError

\* C10: stepBackward only re-highlights: it emits the range of the
\* second-to-last snapshot (nothing with at most one snapshot) and leaves the
\* interpreter, history, error, timer and flags alone, calling step() never.
C10_StepBackwardPureView ==
  [][ op' = "stepBackward"
        => /\ highlighted' = IF Len(history) <= 1 THEN highlighted
                             ELSE history[Len(history) - 1].highlight
           /\ callsInOp' = 0
           /\ UNCHANGED << interpreter, heap, history, error, autoPlayIntervalRef,
                           isRunning, isComplete, isSteppingToView >> ]_vars

\* A step back that moved the highlight off the last snapshot's range.
C10_Witness ==
  /\ op = "stepBackward" /\ Len(history) >= 2
  /\ highlighted = history[Len(history) - 1].highlight
  /\ highlighted # history[Len(history)].highlight

\* The snapshot was captured with a view call as the current node.
CapturedAtView(snapshot) == snapshot.nodeType \in ViewTokens

\* This transition is a return of stepToView that neither caught an
\* exception nor reported the ceiling.
StepToViewReturnsClean ==
  /\ pc \in {"past", "seek"} /\ pc' = "idle"
  /\ callsInOp' = callsInOp + 1
  /\ ~StepThrows

\* C11: a stepToView that returns without an exception and without the
\* ceiling leaves the session Complete or at a view; when it was invoked at a
\* view and stops at a view, a snapshot captured in between is not at a view.
C11_StopsAtViewOrComplete ==
  [][ StepToViewReturnsClean
        => /\ isComplete' \/ isAtView(heap'[interpreter'])
           /\ (CapturedAtView(history[capturedLen]) /\ ~isComplete')
                => \E i \in (capturedLen + 1)..(Len(history') - 1) :
                      ~CapturedAtView(history'[i]) ]_vars

\* stepToView, invoked at a view, has stopped at the next view.
C11_Witness ==
  /\ pc = "idle" /\ op = "stepToView" /\ ~isComplete
  /\ error = NoError
  /\ isAtView(heap[interpreter])
  /\ callsInOp = 2 /\ Len(history) >= 4
  /\ CapturedAtView(history[Len(history) - 2])
  /\ ~CapturedAtView(history[Len(history) - 1])
  /\ CapturedAtView(history[Len(history)])

\* C12: toggleAutoPlay cancels an active timer and clears isRunning, or else
\* starts a timer for stepForward and sets isRunning; it leaves the
\* interpreter, the history and isComplete as they are.
C12_ToggleAlternates ==
  [][ op' = "toggleAutoPlay"
        => /\ IF autoPlayIntervalRef.pending
                THEN ~autoPlayIntervalRef'.pending /\ ~isRunning'
                ELSE /\ autoPlayIntervalRef'.pending /\ isRunning'
                     /\ autoPlayIntervalRef'.interpreter = interpreter
           /\ UNCHANGED << interpreter, heap, history, isComplete >> ]_vars

\* Auto-play was paused after a tick had stepped.
C12_Witness ==
  /\ op = "toggleAutoPlay" /\ ~isRunning /\ ~autoPlayIntervalRef.pending
  /\ Len(history) >= 2

\* ---- scope resolver and variable collector
\* The frames (positions from 1 at the bottom) that bind the name, and those
\* whose binding holds a value other than undefined.
BoundFrames(name) ==
  { i \in 1..Len(stack) : /\ stack[i].scope.kind = "object"
                          /\ stack[i].scope.vars[name] # Absent }

HoldingFrames(name) ==
  { i \in BoundFrames(name) : stack[i].scope.vars[name] # Undefined }

Innermost(S) == CHOOSE i \in S : \A j \in S : j <= i

\* The native form of what position i binds to the name.
NativeAt(i, name) ==
  LET value == stack[i].scope.vars[name]
  IN IF ~convert THEN value
     ELSE IF value = "p1" THEN "n1" ELSE IF value = "p2" THEN "n2" ELSE value

\* The label of position i: "Global" at the bottom, else its distance from
\* the top of the stack.
ScopeLabel(i) == IF i = 1 THEN <<"Global">> ELSE <<"Local-", Len(stack) - i>>

FoundAt(i, name) ==
  /\ findResult.found
  /\ findResult.value = NativeAt(i, name)
  /\ findResult.scopeName = ScopeLabel(i)

\* C13 as stated: when a name is bound in two or more frames, find returns
\* the binding of the innermost of them, whatever value it holds.
C13_InnermostWhateverValue ==
  (call.fn = "find" /\ Cardinality(BoundFrames(call.name)) >= 2)
    => FoundAt(Innermost(BoundFrames(call.name)), call.name)

\* C13: when a name is bound in two or more frames, find returns the binding
\* of the innermost frame whose binding holds a value other than undefined
\* (an innermost binding that holds undefined is passed over), and finds
\* nothing when every binding holds undefined.
C13_InnermostDefinedWins ==
  (call.fn = "find" /\ Cardinality(BoundFrames(call.name)) >= 2)
    => IF HoldingFrames(call.name) = {}
         THEN ~findResult.found
         ELSE FoundAt(Innermost(HoldingFrames(call.name)), call.name)

C13_Witness ==
  /\ call = [fn |-> "find", name |-> "x"]
  /\ Len(stack) = 3
  /\ stack[1].scope.vars["x"] = "p1"
  /\ stack[2].scope.vars["x"] = "p2"
  /\ stack[3].scope.vars["x"] = Undefined
  /\ findResult.found /\ findResult.scopeName = <<"Local-", 1>>

\* C14 as stated: when a name is bound in exactly one frame, find returns
\* found with that frame's value and label.
C14_BoundOnceIsFound ==
  (call.fn = "find" /\ Cardinality(BoundFrames(call.name)) = 1)
    => FoundAt(Innermost(BoundFrames(call.name)), call.name)

\* C14: when a name is bound in exactly one frame, to a value other than
\* undefined, find returns found with that frame's value and the label
\* "Global" for the bottom frame, else "Local-<distance from the top>",
\* whatever the other frames bind.
C14_DefinedOnceIsFound ==
  (call.fn = "find" /\ Cardinality(BoundFrames(call.name)) = 1
     /\ HoldingFrames(call.name) # {})
    => FoundAt(Innermost(BoundFrames(call.name)), call.name)

C14_Witness ==
  /\ call = [fn |-> "find", name |-> "y"]
  /\ Len(stack) = 3
  /\ BoundFrames("y") = {2}
  /\ BoundFrames("x") = {1, 2}
  /\ findResult.found /\ findResult.scopeName = <<"Local-", 1>>

\* C15: the collector returns an empty mapping for an empty stack with any
\* name list, and for any stack with an empty name list, without a lookup.
C15_EmptyInputsEmptyMapping ==
  (call.fn = "collect" /\ (stack = <<>> \/ varNames = <<>>))
    => collectResult.variables = <<>> /\ collectResult.lookups = 0

C15_Witness ==
  /\ call.fn = "collect"
  /\ stack = <<>>
  /\ Len(varNames) = MaxNames
  /\ collectResult = NoCollect

\* ---- view-argument extraction
\* The interpreter the session holds, and whether its current position (the
\* one the newest snapshot was captured at) is a view call.
Current == heap[interpreter]

CapturedAtViewCall ==
  /\ interpreter # Null /\ history # <<>>
  /\ isAtView(Current)

\* An element that is a [name, label] pair of literals.
WellFormed(element) ==
  /\ element.type = "ArrayExpression"
  /\ Len(element.elements) = 2
  /\ element.elements[1].type = "Literal"
  /\ element.elements[2].type = "Literal"

\* The text of a literal's value.
Text(value) ==
  IF value.t = "string" THEN value.s
  ELSE CASE value.n = 1 -> "1" [] value.n = 5 -> "5" [] OTHER -> "?"

PairOf(element) ==
  <<Text(element.elements[1].value), Text(element.elements[2].value)>>

\* The pairs of the well-formed elements, in source order.
RECURSIVE WellFormedPairs(_)
WellFormedPairs(elements) ==
  IF elements = <<>> THEN <<>>
  ELSE (IF WellFormed(Head(elements)) THEN <<PairOf(Head(elements))>> ELSE <<>>)
         \o WellFormedPairs(Tail(elements))

CurrentArgument == ViewArgument(TopKind(Current))

\* C16: at a view call whose first argument is an array of well-formed
\* [name, label] literal pairs, the extractor yields exactly those pairs, as
\* text, in source order, and hands the collector the first elements in
\* that order.
C16_WellFormedPairsInOrder ==
  (CapturedAtViewCall
     /\ \A i \in 1..Len(CurrentArgument.elements) : WellFormed(CurrentArgument.elements[i]))
    => /\ extractView(Current).pairs =
            [i \in 1..Len(CurrentArgument.elements) |-> PairOf(CurrentArgument.elements[i])]
       /\ extractView(Current).names =
            [i \in 1..Len(CurrentArgument.elements) |->
               Text(CurrentArgument.elements[i].elements[1].value)]

C16_Witness ==
  /\ CapturedAtViewCall /\ op = "stepForward"
  /\ TopKind(Current) = "v"
  /\ extractView(Current).pairs = << <<"x", "X">>, <<"y", "Y">> >>
  /\ extractView(Current).names = <<"x", "y">>
  /\ history[Len(history)].viewVariables = ("x" :> "n1") @@ ("y" :> "n2")

\* C17: at a view call whose first-argument array mixes well-formed pairs
\* with elements of the wrong shape (wrong arity, non-literal members, not
\* an array, elided), the extractor yields exactly the well-formed pairs in
\* order and flags no error.
C17_MalformedSkippedIndividually ==
  CapturedAtViewCall
    => /\ extractView(Current).pairs = WellFormedPairs(CurrentArgument.elements)
       /\ "[View Error]" \notin DOMAIN history[Len(history)].viewVariables

\* C18: while a view call that yields pairs is the current position, the
\* store has been notified exactly once since execution arrived at it,
\* however many snapshots were captured there.
C18_NotifiedOncePerHit ==
  (CapturedAtViewCall /\ extractView(Current).notified) => pushes = 1

\* ---- environment and program
\* What a global bound from the value would hold.
BoundFrom(value) ==
  CASE value = Absent -> Absent
    [] value = "n1" -> "p1"
    [] value = "n2" -> "p2"
    [] OTHER -> value

\* C19: whatever the provider does to its values after initialization, the
\* debugged program reads the globals and the getVariablesJSON text of the
\* values the environment held when the engine was built.
C19_EnvironmentReadOnce ==
  /\ observed.fn = "json" => observed.value = JSONstringify(engine.atInit)
  /\ observed.fn = "global"
       => observed.value = <<BoundFrom(engine.atInit[observed.key])>>

\* C20: while an interpreter is present, the program text the controller
\* uses is the text the interpreter was constructed from.
C20_ProgramImmutable ==
  interpreter # Null => code = heap[interpreter].text

\* ---- errors, the ceiling, the history and the timer
ExecutionError == <<"Execution error: ", "thrown">>

\* C21: once an execution exception has been surfaced, no operation other
\* than refresh calls step() or appends a snapshot.
C21_ErrorIsTerminal ==
  [][ (error = ExecutionError /\ op' # "refresh")
        => (~CalledStep /\ history' = history) ]_vars

\* stepToView returns because the ceiling was reached: the exits after the
\* loops, which make no call of step().
CeilingReturn == pc # "idle" /\ pc' = "idle" /\ callsInOp' = callsInOp

CeilingErrors == {PastCeilingError, SeekCeilingError}

\* stepToView has returned with the ceiling's message.
AfterCeiling ==
  /\ pc = "idle" /\ op = "stepToView" /\ callsInOp = maxSteps
  /\ error \in CeilingErrors /\ ~isComplete

\* C22: when stepToView reports the ceiling, every snapshot of the aborted
\* call is in the history, the interpreter is in place, the session is not
\* Complete and isSteppingToView is false; a stepForward that follows calls
\* step() and appends, and a stepToView that follows enters its loops.
C22_CeilingRecoverable ==
  [][ /\ CeilingReturn
        => /\ error' \in CeilingErrors
           /\ history' = history /\ Len(history) = capturedLen + callsInOp
           /\ interpreter' = interpreter /\ interpreter # Null /\ heap' = heap
           /\ ~isComplete' /\ ~isSteppingToView'
      /\ (AfterCeiling /\ op' = "stepForward")
        => /\ callsInOp' = 1
           /\ ~StepThrows => Len(history') = Len(history) + 1
      /\ (AfterCeiling /\ op' = "stepToView")
        => pc' \in {"past", "seek"} ]_vars

\* A stepForward taken after the ceiling stopped a search through a loop.
C22_Witness ==
  /\ op = "stepForward" /\ callsInOp = 1 /\ error = SeekCeilingError
  /\ ~isComplete /\ TopKind(Current) = "k"
  /\ Len(history) = 2 + maxSteps

\* C23: the history holds one snapshot per step: a successful refresh leaves
\* exactly the initial snapshot, every call of step() that returns appends
\* exactly one snapshot, and nothing else changes the history's length.
C23_OneSnapshotPerStep ==
  [][ IF op' = "refresh"
        THEN Len(history') = (IF interpreter' # Null THEN 1 ELSE 0)
        ELSE Len(history') =
               Len(history) + (IF CalledStep /\ ~StepThrows THEN 1 ELSE 0) ]_vars

\* A stepToView that made two calls of step() after one stepForward.
C23_Witness ==
  /\ op = "stepToView" /\ pc = "idle" /\ callsInOp = 2
  /\ Len(history) = 4 /\ error = NoError

\* C24: whenever the session is Complete no timer is pending and isRunning
\* is false.
C24_CompleteStopsAutoPlay ==
  isComplete => (~autoPlayIntervalRef.pending /\ ~isRunning)

\* The calls of step() left on o up to and including the one that returns
\* false or throws; more than MaxHistory when there is no such call in reach.
RECURSIVE StepsToStop(_, _)
StepsToStop(o, fuel) ==
  IF fuel = 0 THEN MaxHistory + 1
  ELSE LET r == step(o)
       IN IF r.ret \in {"false", "throw"} THEN 1
          ELSE 1 + StepsToStop(r.obj, fuel - 1)

\* Auto-play has just been started on a program that stops within the
\* history this model keeps.
AutoPlayStarted ==
  /\ pc = "idle" /\ op = "toggleAutoPlay" /\ autoPlayIntervalRef.pending
  /\ interpreter # Null
  /\ Len(history) + StepsToStop(Current, MaxHistory) <= MaxHistory

\* A tick ended auto-play: Complete or Error, timer cancelled, not running.
AutoPlayEnded ==
  /\ op = "tick" /\ ~autoPlayIntervalRef.pending /\ ~isRunning
  /\ isComplete \/ error = ExecutionError

\* Some operation other than a tick was invoked after auto-play started.
Intervened ==
  \/ op \notin {"toggleAutoPlay", "tick"}
  \/ op = "toggleAutoPlay" /\ ~autoPlayIntervalRef.pending

\* C25: auto-play started on a terminating program, with ticks firing and no
\* other operation invoked, ends Complete or in Error with the timer
\* cancelled and isRunning false; no tick fires while no timer is pending.
C25_AutoPlaySelfCancels ==
  /\ AutoPlayStarted ~> (AutoPlayEnded \/ Intervened)
  /\ [][ ~autoPlayIntervalRef.pending => op' # "tick" ]_vars

\* Auto-play ran the program to completion and cancelled itself.
C25_Witness ==
  /\ op = "tick" /\ callsInOp = 1 /\ isComplete
  /\ ~autoPlayIntervalRef.pending /\ ~isRunning
  /\ Len(history) = 4 /\ code = <<"s">>

\* C26: a pending auto-play timer always belongs to the current session: no
\* refresh leaves a timer pending, and every tick steps the interpreter the
\* session holds, so no tick of a replaced session fires.
C26_TimerBelongsToSession ==
  /\ [](autoPlayIntervalRef.pending
          => (interpreter # Null /\ autoPlayIntervalRef.interpreter = interpreter))
  /\ [][ /\ op' = "refresh" => ~autoPlayIntervalRef'.pending
         /\ op' = "tick"
              => (interpreter # Null /\ autoPlayIntervalRef.interpreter = interpreter) ]_vars

\* A tick stepped the interpreter of a session that replaced an earlier one.
C26_Witness ==
  /\ op = "tick" /\ callsInOp = 1 /\ interpreter = 2
  /\ autoPlayIntervalRef.pending /\ autoPlayIntervalRef.interpreter = 2
  /\ Len(history) = 3

\* ---- the collector and lookup failures
Requested == { varNames[i] : i \in 1..Len(varNames) }

Collecting == call.fn = "collect" /\ stack # <<>> /\ varNames # <<>>

\* C27 as stated: the collector's result holds a requested name exactly when
\* find finds it, mapped to the native form of the value of the innermost
\* frame that binds the name.
C27_CollectsInnermostBinding ==
  Collecting
    => /\ DOMAIN collectResult.variables
            = { n \in Requested : findVariableInStack(convert, stack, n).found }
       /\ \A n \in DOMAIN collectResult.variables :
            collectResult.variables[n] = NativeAt(Innermost(BoundFrames(n)), n)

\* C27: for a non-empty stack and name list the collector's result holds a
\* requested name exactly when find finds it, mapped to the native form of
\* the value of the innermost frame that binds the name to a value other
\* than undefined; a name that resolves to nothing is absent; a repeated
\* name is held once; no key is outside the requested names.
C27_CollectsWhatFindFinds ==
  Collecting
    => /\ DOMAIN collectResult.variables
            = { n \in Requested : findVariableInStack(convert, stack, n).found }
       /\ DOMAIN collectResult.variables
            = { n \in Requested : HoldingFrames(n) # {} }
       /\ \A n \in DOMAIN collectResult.variables :
            collectResult.variables[n] = NativeAt(Innermost(HoldingFrames(n)), n)
       /\ collectResult.lookups = Len(varNames)

\* Two names collected through a frame that binds one of them to undefined.
C27_Witness ==
  /\ call.fn = "collect" /\ convert
  /\ varNames = <<"x", "y">>
  /\ Len(stack) = 2
  /\ stack[2].scope.vars["x"] = Undefined
  /\ stack[1].scope.vars["x"] = "p1" /\ stack[1].scope.vars["y"] = "p2"
  /\ collectResult.variables = ("x" :> "n1") @@ ("y" :> "n2")

\* The frames of the stack find cannot take the name's value from: no scope
\* object, a throwing property access, or no value for the name.
FailingFrames(name) ==
  { i \in 1..Len(stack) : \/ stack[i].scope.kind \in {"none", "throws"}
                          \/ stack[i].scope.vars[name] = Absent }

\* C28: a frame whose lookup fails never ends the search: find returns the
\* value of the innermost frame that holds one, whatever failing frames lie
\* above it, and returns not-found when no frame holds a value.
C28_FailingFramesSkipped ==
  (call.fn = "find" /\ FailingFrames(call.name) # {})
    => IF HoldingFrames(call.name) = {}
         THEN findResult = NoFind
         ELSE FoundAt(Innermost(HoldingFrames(call.name)), call.name)

\* A value found at the bottom under a frame with no scope object and a
\* frame whose property access throws.
C28_Witness ==
  /\ call = [fn |-> "find", name |-> "x"]
  /\ Len(stack) = 3
  /\ stack[3].scope.kind = "throws"
  /\ stack[2].scope.kind = "none"
  /\ stack[1].scope.vars["x"] = "p2"
  /\ findResult.found /\ findResult.scopeName = <<"Global">>

\* ---- snapshots at view calls
\* C29: whenever the newest snapshot was captured at a view call, the store
\* has been notified since execution arrived at that call, also when the
\* call declares no well-formed pair.
C29_EveryCaptureAtViewNotifies ==
  CapturedAtViewCall => pushes >= 1

\* The names a view call declares: the first members of the elements of its
\* first argument that are arrays of at least two members, the first two
\* literals (lines 179-187).
DeclaredNames(kind) ==
  LET elements == ViewArgument(kind).elements
  IN { Text(elements[i].elements[1].value) :
         i \in { j \in 1..Len(elements) :
                   /\ elements[j].type = "ArrayExpression"
                   /\ Len(elements[j].elements) >= 2
                   /\ elements[j].elements[1].type = "Literal"
                   /\ elements[j].elements[2].type = "Literal" } }

\* C30: in every history, a snapshot captured away from a view call has an
\* empty viewVariables mapping, and every key of a snapshot's mapping is
\* "[View Error]" or a name declared by the view call it was captured at.
C30_KeysAreDeclaredNames ==
  \A i \in 1..Len(history) :
    /\ history[i].nodeType \notin ViewTokens
         => DOMAIN history[i].viewVariables = {}
    /\ \A k \in DOMAIN history[i].viewVariables :
         \/ k = "[View Error]"
         \/ /\ history[i].nodeType \in ViewTokens
            /\ k \in DeclaredNames(history[i].nodeType)

\* A snapshot with both declared names right after one captured at a
\* statement.
C30_Witness ==
  /\ \E i \in 2..Len(history) :
       /\ history[i].nodeType = "v"
       /\ DOMAIN history[i].viewVariables = {"x", "y"}
       /\ history[i - 1].nodeType = "s"
       /\ DOMAIN history[i - 1].viewVariables = {}
  /\ Len(history) = 4

\* ---- extraction failures
\* The view call at o has an elided element: reading it throws inside the
\* try of lines 176-207.
ViewExtractionThrows(o) == isAtView(o) /\ TopKind(o) = "h"

\* This transition made a call of step() that returned, and the capture that
\* followed it met a throwing extraction.
CapturedWithFailure ==
  /\ CalledStep /\ ~StepThrows
  /\ namesThrow \/ ViewExtractionThrows(heap'[interpreter])

\* C31: when declared-variable extraction or view-argument extraction throws
\* during a capture, the step completes: exactly one snapshot is appended,
\* it carries the "[Error]" or "[View Error]" marker, no error is surfaced,
\* and auto-play is cancelled only if step() reported completion.
C31_ExtractionFailureNotFatal ==
  [][ CapturedWithFailure
        => /\ Len(history') = Len(history) + 1
           /\ SubSeq(history', 1, Len(history)) = history
           /\ namesThrow
                => "[Error]" \in DOMAIN history'[Len(history')].variables
           /\ ViewExtractionThrows(heap'[interpreter])
                => "[View Error]" \in DOMAIN history'[Len(history')].viewVariables
           /\ error' = error
           /\ interpreter' = interpreter
           /\ step(heap[interpreter]).ret # "false"
                => /\ autoPlayIntervalRef' = autoPlayIntervalRef
                   /\ isRunning' = isRunning
                   /\ isComplete' = isComplete ]_vars

\* An auto-play tick captured a snapshot with both markers and auto-play
\* goes on.
C31_Witness ==
  /\ namesThrow /\ op = "tick" /\ callsInOp = 1
  /\ ViewExtractionThrows(Current)
  /\ autoPlayIntervalRef.pending /\ isRunning /\ error = NoError
  /\ Len(history) = 3
  /\ "[Error]" \in DOMAIN history[3].variables
  /\ "[View Error]" \in DOMAIN history[3].viewVariables

\* ---- best-effort environment binding
ConversionFails(contents) ==
  \E k \in {"a", "b"} :
    contents[k] # Absent /\ nativeToPseudo(contents[k]).threw

\* C32: when the conversion of an environment entry throws during
\* initialization, the engine is still built: that entry is bound to its raw
\* value, every other entry is bound to its converted value, and
\* getVariablesJSON is bound and serializes the whole variables object.
C32_BindingBestEffort ==
  [][ (engine' # engine /\ ConversionFails(envHeap[environment]))
        => /\ engine'.built
           /\ error' = NoError
           /\ \A k \in {"a", "b"} :
                LET value == envHeap[environment][k] IN
                  engine'.globalObject[k] =
                    IF value = Absent THEN Absent
                    ELSE IF nativeToPseudo(value).threw THEN value
                    ELSE nativeToPseudo(value).value
           /\ getVariablesJSONWrapper(engine')
                = JSONstringify(envHeap[environment]) ]_vars

\* The engine was built from an object whose entry "a" cannot be converted
\* and whose entry "b" can, and the program read the raw global "a".
C32_Witness ==
  /\ engine.built
  /\ engine.atInit["a"] = "u" /\ engine.atInit["b"] = "n1"
  /\ engine.globalObject["a"] = "u" /\ engine.globalObject["b"] = "p1"
  /\ observed = [fn |-> "global", key |-> "a", value |-> <<"u">>]

\* ---- flags between operations
\* C33: isRunning is true exactly when an auto-play timer is pending.
C33_RunningIffTimerPending ==
  isRunning <=> autoPlayIntervalRef.pending

\* A tick of auto-play met the end of the program: the timer is cancelled
\* and isRunning is false.
C33_Witness ==
  /\ op = "tick" /\ isComplete
  /\ ~isRunning /\ ~autoPlayIntervalRef.pending

\* C34: an interpreter is present exactly when the history is non-empty; and
\* while the history is empty no operation calls step(), and none but
\* refresh changes the history, the interpreter's state or a flag.
C34_InterpreterIffHistory ==
  [][ /\ interpreter # Null <=> history # <<>>
      /\ interpreter' # Null <=> history' # <<>>
      /\ history = <<>>
           => /\ callsInOp' = 0
              /\ op' # "refresh"
                   => UNCHANGED << interpreter, heap, history, isRunning,
                                   isComplete, isSteppingToView >> ]_vars

\* A refresh whose program did not parse left neither interpreter nor history.
C34_Witness ==
  /\ op = "refresh" /\ interpreter = Null /\ history = <<>>
  /\ error # NoError /\ error # NoCodeToDebug

\* C35: isSteppingToView is false whenever no stepToView is running: every
\* return of stepToView leaves it false, and it becomes true only as a
\* stepToView begins.
C35_SteppingFlagTransient ==
  [][ /\ pc = "idle" => ~isSteppingToView
      /\ pc' = "idle" => ~isSteppingToView'
      /\ (~isSteppingToView /\ isSteppingToView')
           => pc = "idle" /\ pc' # "idle" /\ op' = "stepToView" ]_vars

\* A stepToView that met an exception after a step has returned with the
\* flag cleared.
C35_Witness ==
  /\ op = "stepToView" /\ pc = "idle" /\ callsInOp = 2
  /\ error = ExecutionError /\ ~isSteppingToView

\* ---- stepping back
\* C36: after a stepBackward the highlight is the range of the second-to-last
\* snapshot, and a further stepBackward is possible and changes nothing:
\* repeated steps back emit that same range and never an earlier one.
C36_StepBackwardIdempotent ==
  op = "stepBackward"
    => /\ Len(history) >= 2
       /\ highlighted = history[Len(history) - 1].highlight
       /\ ENABLED (StepBackward /\ UNCHANGED vars)

\* A step back over a history of three snapshots with three different
\* ranges: the second one is highlighted.
C36_Witness ==
  /\ op = "stepBackward" /\ Len(history) = 3
  /\ highlighted = history[2].highlight
  /\ history[1].highlight # history[2].highlight
  /\ history[3].highlight # history[2].highlight

====
